---- MODULE Spec2Model ----
(***************************************************************************)
(* Model of lensless/hardware/mask_3dmodel.py: MaskModel, SimpleFrame,     *)
(* CrossConnection and SaltireConnection.                                  *)
(*                                                                         *)
(* Lengths are exact rationals [n, d] (millimetres unless said otherwise). *)
(* A cadquery Workplane is modelled by its object stack, a sequence of     *)
(* solids and points.  The cadquery rules the source relies on are:        *)
(*   - Workplane.box makes one box per stack item, placed at the item      *)
(*     (a solid counts as its centre of mass); on an EMPTY stack it makes  *)
(*     one box at the workplane origin (Workplane.eachpoint);              *)
(*   - centered=(cx,cy,cz) is relative to that placement point;            *)
(*   - combine=True fuses the new solid with the solid already present,    *)
(*     combine=False leaves every new solid as its own stack item;         *)
(*   - Workplane.add(w) extends the stack by w's stack items;              *)
(*   - Workplane.combine(glue) fuses all stack items into one item.        *)
(***************************************************************************)
EXTENDS Integers, Naturals, Sequences, FiniteSets, TLC

\* ------------------------------------------------------------------ bounds
MaxCells == 3
MaxSize == 2

\* ------------------------------------------------------- exact arithmetic
Abs(i) == IF i < 0 THEN -i ELSE i

RECURSIVE GCD(_, _)
GCD(a, b) == IF b = 0 THEN a ELSE GCD(b, a % b)

\* the rational n/d in lowest terms with a positive denominator (d # 0)
R(n, d) ==
  LET g == GCD(Abs(n), Abs(d))
      s == IF d < 0 THEN -1 ELSE 1
  IN [n |-> (s * n) \div g, d |-> (s * d) \div g]

Zero == R(0, 1)
Half == R(1, 2)
\* numpy's result of dividing a positive float by zero
Inf == [n |-> 1, d |-> 0]
IsInf(a) == a.d = 0

RAdd(a, b) == R(a.n * b.d + b.n * a.d, a.d * b.d)
RNeg(a) == [n |-> -a.n, d |-> a.d]
RSub(a, b) == RAdd(a, RNeg(b))
RMul(a, b) == R(a.n * b.n, a.d * b.d)
RDiv(a, b) == IF b.n = 0 THEN Inf ELSE R(a.n * b.d, a.d * b.n)
RLt(a, b) == a.n * b.d < b.n * a.d
RLe(a, b) == a.n * b.d <= b.n * a.d
RMin(a, b) == IF RLe(a, b) THEN a ELSE b

\* numbers a + b/sqrt(2) with rational a and b, as SaltireConnection uses
Surd(a, b) == [a |-> a, b |-> b]
SRat(a) == Surd(a, Zero)
SNeg(s) == Surd(RNeg(s.a), RNeg(s.b))
SSub(s, t) == Surd(RSub(s.a, t.a), RSub(s.b, t.b))
\* thickness / np.sqrt(2)
DivSqrt2(t) == Surd(Zero, t)
\* b/sqrt(2) > m for b >= 0 and rational m >= 0
SurdGtRat(s, m) == RLt(RMul(R(2, 1), RMul(m, m)), RMul(s.b, s.b))

\* ------------------------------------------------------------ numpy arrays
\* the index tuples of an array of the given shape, in row-major order
AllIndices(shape) ==
  IF Len(shape) = 0 THEN << <<>> >>
  ELSE IF Len(shape) = 1 THEN [k \in 1..shape[1] |-> <<k - 1>>]
  ELSE IF Len(shape) = 2 THEN
    [k \in 1..(shape[1] * shape[2]) |->
        <<(k - 1) \div shape[2], (k - 1) % shape[2]>>]
  ELSE
    [k \in 1..(shape[1] * shape[2] * shape[3]) |->
        <<(k - 1) \div (shape[2] * shape[3]),
          ((k - 1) \div shape[3]) % shape[2],
          (k - 1) % shape[3]>>]

IndexSet(shape) == {AllIndices(shape)[k] : k \in DOMAIN AllIndices(shape)}

\* np.argwhere(mask == 0): the rows are the index tuples of the 0-cells
ArgwhereZero(mask) ==
  SelectSeq(AllIndices(mask.shape), LAMBDA i : mask.data[i] = 0)

\* a (2,) array is broadcast against a (k,) array only for k in {1, 2}
Broadcastable2(k) == k \in {1, 2}
\* element j of a (k,) array broadcast to (2,)
Bc(seq, j) == IF Len(seq) = 1 THEN seq[1] ELSE seq[j]

\* --------------------------------------------------------- cadquery kernel
Origin == <<Zero, Zero, Zero>>

\* Solid.makeBox moved to point p; centered[k] centres axis k on p,
\* otherwise the box starts at p on that axis
MakeBox(p, length, width, height, centered) ==
  LET x0 == IF centered[1] THEN RSub(p[1], RMul(length, Half)) ELSE p[1]
      y0 == IF centered[2] THEN RSub(p[2], RMul(width, Half)) ELSE p[2]
      z0 == IF centered[3] THEN RSub(p[3], RMul(height, Half)) ELSE p[3]
  IN [kind |-> "box",
      x0 |-> x0, x1 |-> RAdd(x0, length),
      y0 |-> y0, y1 |-> RAdd(y0, width),
      z0 |-> z0, z1 |-> RAdd(z0, height)]

\* Shape.Center(): a point is itself, a box is its centre of mass
CenterOf(o) ==
  IF o.kind = "pt" THEN o.p
  ELSE <<RMul(RAdd(o.x0, o.x1), Half),
         RMul(RAdd(o.y0, o.y1), Half),
         RMul(RAdd(o.z0, o.z1), Half)>>

\* Workplane.eachpoint ignoring the stack: every solid at the origin
StackPointsOrigin(stack) ==
  IF stack = <<>> THEN <<Origin>> ELSE [i \in DOMAIN stack |-> Origin]

\* Workplane.eachpoint: the placement points for the next operation
StackPoints(stack) ==
  IF stack = <<>> THEN <<Origin>>
  ELSE [i \in DOMAIN stack |-> CenterOf(stack[i])]

\* Workplane.box: the boxes it creates, one per placement point
WorkplaneBox(stack, length, width, height, centered) ==
  [i \in DOMAIN StackPoints(stack) |->
      MakeBox(StackPoints(stack)[i], length, width, height, centered)]

\* Workplane.pushPoints: 2D points become stack points with z = 0
PushPoints(points) ==
  [i \in DOMAIN points |->
      [kind |-> "pt", p |-> <<points[i][1], points[i][2], Zero>>]]

\* Workplane.cylinder(height, radius, centered=(True, True, False))
Cylinder(height, radius) ==
  [kind |-> "cylinder", r |-> radius, cx |-> Zero, cy |-> Zero,
   z0 |-> Zero, z1 |-> height]

Union(parts, glue) == [kind |-> "union", parts |-> parts, glue |-> glue]
Cut(base, tool) == [kind |-> "cut", base |-> base, tool |-> tool]

\* Workplane.combine that fuses nothing
CombineNone(stack, glue) == stack

\* Workplane.combine(glue): pops the first item and fuses the rest into it
Combine(stack, glue) ==
  IF Len(stack) = 1 THEN <<stack[1]>> ELSE <<Union(stack, glue)>>

\* -------------------------------------------------------------- generators
\* SimpleFrame whose cutout also grows with the padding
SimpleFrame_generate_padded_cut(frame, mask_size, depth) ==
  LET width == RAdd(mask_size[1], RMul(R(2, 1), frame.padding))
      height == RAdd(mask_size[2], RMul(R(2, 1), frame.padding))
      outer == WorkplaneBox(<<>>, width, height, depth,
                            <<TRUE, TRUE, FALSE>>)[1]
      c == StackPoints(<<outer>>)[1]
  IN Cut(outer,
         [kind |-> "prism",
          x0 |-> RSub(c[1], RMul(width, Half)),
          x1 |-> RAdd(c[1], RMul(width, Half)),
          y0 |-> RSub(c[2], RMul(height, Half)),
          y1 |-> RAdd(c[2], RMul(height, Half)),
          z0 |-> outer.z0, z1 |-> outer.z1])

\* SimpleFrame.generate: box, rect at the box centre, cutThruAll
SimpleFrame_generate(frame, mask_size, depth) ==
  LET width == mask_size[1]
      height == mask_size[2]
      outer == WorkplaneBox(<<>>,
                            RAdd(width, RMul(R(2, 1), frame.padding)),
                            RAdd(height, RMul(R(2, 1), frame.padding)),
                            depth, <<TRUE, TRUE, FALSE>>)[1]
      c == StackPoints(<<outer>>)[1]
  IN Cut(outer,
         [kind |-> "prism",
          x0 |-> RSub(c[1], RMul(width, Half)),
          x1 |-> RAdd(c[1], RMul(width, Half)),
          y0 |-> RSub(c[2], RMul(height, Half)),
          y1 |-> RAdd(c[2], RMul(height, Half)),
          z0 |-> outer.z0, z1 |-> outer.z1])

\* the bore left out: the struts are returned whatever mask_radius is
BoreNever(model, mask_radius, depth) == model

\* the optional bore: cut a full-depth cylinder when mask_radius is given
Bore(model, mask_radius, depth) ==
  IF mask_radius # <<>> THEN Cut(model, Cylinder(depth, mask_radius[1]))
  ELSE model

\* CrossConnection.generate
CrossConnection_generate(conn, mask, mask_size, depth) ==
  LET width == mask_size[1]
      height == mask_size[2]
      vertical == WorkplaneBox(<<>>, conn.thickness, height, depth,
                               <<TRUE, TRUE, FALSE>>)[1]
      horizontal == WorkplaneBox(<<vertical>>, width, conn.thickness, depth,
                                 <<TRUE, TRUE, TRUE>>)[1]
  IN Bore(Union(<<vertical, horizontal>>, FALSE), conn.mask_radius, depth)

\* the chamfer length l of SaltireConnection
SaltireChamfer(conn) == DivSqrt2(conn.thickness)

\* SaltireConnection.generate: two extruded hexagonal profiles
SaltireConnection_generate(conn, mask, mask_size, depth) ==
  LET width2 == SRat(RMul(mask_size[1], Half))
      height2 == SRat(RMul(mask_size[2], Half))
      l == SaltireChamfer(conn)
      first ==
        << <<SNeg(SSub(width2, l)), SNeg(height2)>>,
           <<SNeg(width2), SNeg(height2)>>,
           <<SNeg(width2), SNeg(SSub(height2, l))>>,
           <<SSub(width2, l), height2>>,
           <<width2, height2>>,
           <<width2, SSub(height2, l)>> >>
      second ==
        << <<SNeg(SSub(width2, l)), height2>>,
           <<SNeg(width2), height2>>,
           <<SNeg(width2), SSub(height2, l)>>,
           <<SSub(width2, l), SNeg(height2)>>,
           <<width2, SNeg(height2)>>,
           <<width2, SNeg(SSub(height2, l))>> >>
      prism(profile) ==
        [kind |-> "extrude", profile |-> profile, z0 |-> Zero, z1 |-> depth]
  IN Bore(Union(<<prism(first), prism(second)>>, FALSE),
          conn.mask_radius, depth)

\* self.frame.generate(...), dispatched on the frame's class
Frame_generate(frame, mask_size, depth) ==
  SimpleFrame_generate(frame, mask_size, depth)

\* self.connections.generate(...), dispatched on the connection's class
Connection_generate(conn, mask, mask_size, depth) ==
  IF conn.cls = "CrossConnection"
  THEN CrossConnection_generate(conn, mask, mask_size, depth)
  ELSE SaltireConnection_generate(conn, mask, mask_size, depth)

\* ---------------------------------------------------------------- MaskModel
\* np.array(mask_size)*1e3: metres to millimetres
MetresToMm(mask_size) ==
  <<RMul(mask_size[1], R(1000, 1)), RMul(mask_size[2], R(1000, 1))>>

\* self.mask_size / self.mask.shape divided along the other axis
PxSizeSwapped(mask_size, shape) ==
  <<RDiv(mask_size[1], R(Bc(shape, 2), 1)),
    RDiv(mask_size[2], R(Bc(shape, 1), 1))>>

\* px_size = self.mask_size / self.mask.shape (element-wise, broadcast)
PxSize(mask_size, shape) ==
  <<RDiv(mask_size[1], R(Bc(shape, 1), 1)),
    RDiv(mask_size[2], R(Bc(shape, 2), 1))>>

\* mask_to_points returning the centre of each cell instead of its corner
mask_to_points_centred(mask, mask_size, px_size) ==
  LET rows == ArgwhereZero(mask)
      coord(idx, j) ==
        RMul(RAdd(RSub(R(Bc(idx, j), 1),
                       RMul(R(Bc(mask.shape, j), 1), Half)), Half),
             px_size[j])
  IN [i \in DOMAIN rows |-> <<coord(rows[i], 1), coord(rows[i], 2)>>]

\* mask_to_points: (argwhere(mask == 0) - shape/2) * px_size
mask_to_points(mask, mask_size, px_size) ==
  LET rows == ArgwhereZero(mask)
      coord(idx, j) ==
        RMul(RSub(R(Bc(idx, j), 1), RMul(R(Bc(mask.shape, j), 1), Half)),
             px_size[j])
  IN [i \in DOMAIN rows |-> <<coord(rows[i], 1), coord(rows[i], 2)>>]

\* the debug axes: three thin boxes through the origin.  Each is placed at
\* the centre of mass of what is on the stack, which is the origin because
\* every box is centred on it.
AxisTest ==
  LET axis_thickness == R(1, 10)
      axis_length == R(20, 1)
      all == <<TRUE, TRUE, TRUE>>
      b1 == WorkplaneBox(<<>>, axis_thickness, axis_thickness, axis_length,
                         all)[1]
      b2 == WorkplaneBox(<<b1>>, axis_thickness, axis_length, axis_thickness,
                         all)[1]
      b3 == WorkplaneBox(<<b1>>, axis_length, axis_thickness, axis_thickness,
                         all)[1]
  IN Union(<<b1, b2, b3>>, FALSE)

\* what a failed construction leaves behind
Failed(err, done, fm, cm) ==
  [error |-> err, stages |-> done, frame_model |-> <<fm>>,
   connection_model |-> <<cm>>, px_size |-> <<>>, points |-> <<>>,
   boxes |-> <<>>, mask_model |-> <<>>, model |-> <<>>]

\* MaskModel._generate_3d_model on the fields set by __init__.
\* kernel_raises: whether the geometry kernel refuses a box of infinite
\* size (the pixel size is infinite when an axis has extent zero).
generate_3d_model(self, kernel_raises) ==
  LET frame_model == Frame_generate(self.frame, self.mask_size, self.depth)
      connection_model ==
        Connection_generate(self.connections, self.mask, self.mask_size,
                            self.depth)
      built == <<"frame", "connection">>
  IN
  IF ~Broadcastable2(Len(self.mask.shape))
  THEN Failed("ValueError", built, frame_model, connection_model)
  ELSE
    LET px_size == PxSize(self.mask_size, self.mask.shape)
        points == mask_to_points(self.mask, self.mask_size, px_size)
    IN
    IF (IsInf(px_size[1]) \/ IsInf(px_size[2])) /\ kernel_raises
    THEN Failed("KernelError", built, frame_model, connection_model)
    ELSE
      LET boxes == WorkplaneBox(PushPoints(points), px_size[1], px_size[2],
                                self.depth, <<FALSE, FALSE, FALSE>>)
          mask_model == IF self.simplify THEN Combine(boxes, TRUE) ELSE boxes
          composite == <<frame_model, connection_model>> \o mask_model
          with_axis == IF self.show_axis THEN Append(composite, AxisTest)
                       ELSE composite
          model == IF self.simplify THEN Combine(with_axis, FALSE)
                   ELSE with_axis
      IN [error |-> "",
          stages |-> built \o <<"apertures", "composition">>
                     \o (IF self.simplify THEN <<"simplification">>
                         ELSE <<>>),
          frame_model |-> <<frame_model>>,
          connection_model |-> <<connection_model>>,
          px_size |-> px_size, points |-> points, boxes |-> boxes,
          mask_model |-> mask_model, model |-> <<model>>]

\* ------------------------------------------------------------------ inputs
Shapes2D == {<<h, w>> : h \in 0..MaxCells, w \in 0..MaxCells}
\* arrays that are not 2-dimensional: 0-D, 1-D and 3-D
OtherShapes == {<<>>, <<1>>, <<2>>, <<1, 1, 1>>, <<1, 2, 1>>}
Shapes ==
  {s \in Shapes2D : s[1] * s[2] <= MaxCells} \cup OtherShapes

MasksOf(shape) ==
  {[shape |-> shape, data |-> f] : f \in [IndexSet(shape) -> {0, 1}]}

\* the 4x4 mask whose only transparent cell is (1, 1)
ScenarioMask ==
  [shape |-> <<4, 4>>,
   data |-> [i \in IndexSet(<<4, 4>>) |-> IF i = <<1, 1>> THEN 0 ELSE 1]]

Masks == UNION {MasksOf(s) : s \in Shapes} \cup {ScenarioMask}

\* mask_size in metres: 1..MaxSize millimetres per side
MaskSizes == {<<R(a, 1000), R(b, 1000)>> : a \in 1..MaxSize, b \in 1..MaxSize}
Depths == {R(1, 2), R(1, 1)}
Frames == {[cls |-> "SimpleFrame", padding |-> p] : p \in {R(1, 1), R(2, 1)}}
Connections ==
  {[cls |-> c, thickness |-> t, mask_radius |-> r] :
     c \in {"CrossConnection", "SaltireConnection"},
     t \in {R(1, 10), R(2, 1)},
     r \in {<<>>, <<R(1, 4)>>}}
FileNames == {"mask.step"}

\* ----------------------------------------------------------- state machine
\* args: the arguments the constructor is called with; self: the fields
\* __init__ sets; the other variables record _generate_3d_model's locals,
\* the stages it completed, the exception it raised, and the exported files
VARIABLES pc, args, self, stages, error, frame_model, connection_model,
          px_size, points, boxes, mask_model, model, files, save_error

vars == <<pc, args, self, stages, error, frame_model, connection_model,
          px_size, points, boxes, mask_model, model, files, save_error>>

Init ==
  /\ pc = "new"
  /\ args \in [mask_array : Masks, frame : Frames, connection : Connections,
               mask_size : MaskSizes, depth : Depths,
               simplify : BOOLEAN, show_axis : BOOLEAN]
  /\ self = <<>>
  /\ stages = <<>>
  /\ error = ""
  /\ frame_model = <<>>
  /\ connection_model = <<>>
  /\ px_size = <<>>
  /\ points = <<>>
  /\ boxes = <<>>
  /\ mask_model = <<>>
  /\ model = <<>>
  /\ files = {}
  /\ save_error = ""

\* the fields MaskModel.__init__ stores before it generates the model
InitFields(a) ==
  [mask |-> a.mask_array, frame |-> a.frame, connections |-> a.connection,
   mask_size |-> MetresToMm(a.mask_size), depth |-> a.depth,
   simplify |-> a.simplify, show_axis |-> a.show_axis]

\* the kernel's answer is open only when a box of infinite size is asked for
KernelChoices(a) ==
  IF \E k \in DOMAIN a.mask_array.shape : a.mask_array.shape[k] = 0
  THEN BOOLEAN ELSE {FALSE}

\* MaskModel.__init__: store the arguments, then _generate_3d_model
Construct ==
  /\ pc = "new"
  /\ \E kernel_raises \in KernelChoices(args) :
       \E r \in {generate_3d_model(InitFields(args), kernel_raises)} :
          /\ self' = InitFields(args)
          /\ stages' = r.stages
          /\ error' = r.error
          /\ frame_model' = r.frame_model
          /\ connection_model' = r.connection_model
          /\ px_size' = r.px_size
          /\ points' = r.points
          /\ boxes' = r.boxes
          /\ mask_model' = r.mask_model
          /\ model' = r.model
          /\ pc' = IF r.error = "" THEN "constructed" ELSE "failed"
  /\ UNCHANGED <<args, files, save_error>>

\* MaskModel.save: "assert self.model is not None", then the export to fname.
\* __init__ never sets self.model to None: the attribute is either set to
\* the composed model or, when the constructor raised, missing, and reading
\* a missing attribute raises AttributeError before the assert is evaluated.
Save ==
  /\ pc \in {"constructed", "failed"}
  /\ \E fname \in FileNames :
       IF model = <<>>
       THEN /\ save_error' = "AttributeError"
            /\ UNCHANGED files
       ELSE /\ files' = files \cup {[fname |-> fname, content |-> model]}
            /\ save_error' = ""
  /\ UNCHANGED <<pc, args, self, stages, error, frame_model,
                 connection_model, px_size, points, boxes, mask_model, model>>

Next == Construct \/ Save

Spec == Init /\ [][Next]_vars

\* ------------------------------------------------------------------ claims
Built == pc = "constructed"
Shape == self.mask.shape
Is2D == Len(Shape) = 2
Width == self.mask_size[1]
Height == self.mask_size[2]
TransparentCells == {i \in IndexSet(Shape) : self.mask.data[i] = 0}
AllCells(v) == \A i \in IndexSet(Shape) : self.mask.data[i] = v
BoxSet == {boxes[k] : k \in DOMAIN boxes}
Int2R(i) == R(i, 1)

RECURSIVE FootprintArea(_)
FootprintArea(bs) ==
  IF bs = <<>> THEN Zero
  ELSE RAdd(RMul(RSub(Head(bs).x1, Head(bs).x0),
                 RSub(Head(bs).y1, Head(bs).y0)),
            FootprintArea(Tail(bs)))

ValidMask == Built /\ Is2D /\ Shape[1] > 0 /\ Shape[2] > 0

\* C1: for every 2D mask of shape (H, W), construction emits exactly one
\* aperture box per 0-cell and none for a 1-cell; an all-transparent mask
\* yields H*W boxes whose footprints add up to width*height.
C1_OneBoxPerTransparentCell ==
  ValidMask =>
     /\ Len(boxes) = Cardinality(TransparentCells)
     /\ AllCells(0) =>
           /\ Len(boxes) = Shape[1] * Shape[2]
           /\ FootprintArea(boxes) = RMul(Width, Height)

\* the anchor the claims give for the cell (row, col): the index minus half
\* the shape, times the pixel size, element-wise
AnchoredAt(b, row, col, px) ==
  /\ b.x0 = RMul(RSub(Int2R(row), RMul(Int2R(Shape[1]), Half)), px[1])
  /\ b.y0 = RMul(RSub(Int2R(col), RMul(Int2R(Shape[2]), Half)), px[2])
  /\ RSub(b.x1, b.x0) = px[1]
  /\ RSub(b.y1, b.y0) = px[2]

\* C2 as stated: pixel_width = width/W and pixel_height = height/H, and the
\* box of the transparent cell (row, col) is anchored at
\* (row - H/2, col - W/2) times the pixel size.
C2_PixelSizeWidthOverW ==
  ValidMask =>
     LET px == <<RDiv(Width, Int2R(Shape[2])), RDiv(Height, Int2R(Shape[1]))>>
     IN /\ px_size = px
        /\ \A c \in TransparentCells :
              \E b \in BoxSet : AnchoredAt(b, c[1], c[2], px)

\* C2 amended: the pixel size is the physical size divided by the array
\* shape axis by axis, (width/H, height/W); every aperture box has that
\* size and the box of the transparent cell (row, col) is anchored at
\* ((row - H/2) * width/H, (col - W/2) * height/W).
C2_PixelSizePerAxis ==
  ValidMask =>
     LET px == <<RDiv(Width, Int2R(Shape[1])), RDiv(Height, Int2R(Shape[2]))>>
     IN /\ px_size = px
        /\ \A b \in BoxSet :
              RSub(b.x1, b.x0) = px[1] /\ RSub(b.y1, b.y0) = px[2]
        /\ \A c \in TransparentCells :
              \E b \in BoxSet : AnchoredAt(b, c[1], c[2], px)

\* a non-square mask with a transparent cell has been built
C2_Witness ==
  ValidMask /\ Shape[1] # Shape[2] /\ TransparentCells # {}
  /\ Width = Height

\* the two struts of the cross, below the optional bore cut
CrossStruts ==
  IF connection_model[1].kind = "cut" THEN connection_model[1].base.parts
  ELSE connection_model[1].parts

CentredXY(b, xlen, ylen) ==
  /\ b.x0 = RNeg(RMul(xlen, Half)) /\ b.x1 = RMul(xlen, Half)
  /\ b.y0 = RNeg(RMul(ylen, Half)) /\ b.y1 = RMul(ylen, Half)

FullDepth(b) == b.z0 = Zero /\ b.z1 = self.depth

IsCross == pc # "new" /\ self.connections.cls = "CrossConnection"

\* C3: CrossConnection.generate returns the union of a vertical strut
\* (thickness x height x depth) and a horizontal strut (width x thickness x
\* depth), both centred in XY and both spanning z in [0, depth], the same
\* interval as the frame and the aperture boxes.
C3_CrossStrutsFullDepth ==
  IsCross =>
     /\ Len(CrossStruts) = 2
     /\ CentredXY(CrossStruts[1], self.connections.thickness, Height)
     /\ CentredXY(CrossStruts[2], Width, self.connections.thickness)
     /\ FullDepth(CrossStruts[1])
     /\ FullDepth(CrossStruts[2])
     /\ FullDepth(frame_model[1].base)
     /\ \A b \in BoxSet : FullDepth(b)

\* a cross has been generated next to a frame and aperture boxes
C3_Witness ==
  IsCross /\ Built /\ boxes # <<>> /\ Width # Height
  /\ self.depth = R(1, 2)

\* C4: SimpleFrame.generate returns an outer box (width + 2*padding,
\* height + 2*padding, depth) centred in XY with a through-cut of exactly
\* (width, height) centred in XY over the full depth; the padding changes
\* only the outer box.
C4_FrameCutoutIsMaskSize ==
  (pc # "new") =>
     LET p2 == RMul(R(2, 1), self.frame.padding)
         f == frame_model[1]
     IN /\ f.kind = "cut"
        /\ CentredXY(f.base, RAdd(Width, p2), RAdd(Height, p2))
        /\ FullDepth(f.base)
        /\ CentredXY(f.tool, Width, Height)
        /\ FullDepth(f.tool)

\* a frame with padding 2 around a non-square footprint has been generated
C4_Witness ==
  pc # "new" /\ self.frame.padding = R(2, 1) /\ Width # Height
  /\ frame_model # <<>>

\* C5: an all-opaque mask produces zero aperture boxes and the composite is
\* the frame solid and the connection solid only.
C5_AllOpaqueHasNoBoxes ==
  (ValidMask /\ AllCells(1)) =>
     /\ boxes = <<>>
     /\ (~self.simplify /\ ~self.show_axis) =>
           model[1] = <<frame_model[1], connection_model[1]>>

\* the scenario of C6 has been constructed
Scenario ==
  /\ Built
  /\ self.mask = ScenarioMask
  /\ self.mask_size = <<R(1, 1), R(1, 1)>>
  /\ self.depth = R(1, 2)
  /\ self.frame = [cls |-> "SimpleFrame", padding |-> R(2, 1)]
  /\ self.connections = [cls |-> "CrossConnection", thickness |-> R(1, 10),
                         mask_radius |-> <<>>]
  /\ ~self.simplify
  /\ ~self.show_axis

ScenarioFrameAndCount ==
  /\ CentredXY(frame_model[1].base, R(5, 1), R(5, 1))
  /\ FullDepth(frame_model[1].base)
  /\ CentredXY(frame_model[1].tool, R(1, 1), R(1, 1))
  /\ FullDepth(frame_model[1].tool)
  /\ connection_model[1].kind = "union"
  /\ Len(model[1]) = 3
  /\ model[1] = <<frame_model[1], connection_model[1], boxes[1]>>

ScenarioBox(x, y) ==
  [kind |-> "box", x0 |-> x, x1 |-> RAdd(x, R(1, 4)),
   y0 |-> y, y1 |-> RAdd(y, R(1, 4)), z0 |-> Zero, z1 |-> R(1, 2)]

\* C6 as stated: in the scenario there is exactly one 0.25 x 0.25 x 0.5
\* aperture box anchored at (-0.125, -0.125), one frame (outer 5 x 5 x 0.5,
\* 1 x 1 through-cut), one cross, 3 top-level solids.
C6_ScenarioAnchorEighth ==
  Scenario =>
     /\ boxes = <<ScenarioBox(R(-1, 8), R(-1, 8))>>
     /\ ScenarioFrameAndCount

\* C6 amended: as stated, except that the aperture box is anchored at
\* (-0.25, -0.25); it spans [-0.25, 0] in x and y, so (-0.125, -0.125) is
\* its centre.
C6_ScenarioAnchorQuarter ==
  Scenario =>
     /\ boxes = <<ScenarioBox(R(-1, 4), R(-1, 4))>>
     /\ points = << <<R(-1, 4), R(-1, 4)>> >>
     /\ ScenarioFrameAndCount

C6_Witness == Scenario /\ Len(boxes) = 1

AxisCount == IF self.show_axis THEN 1 ELSE 0

\* C7: with simplify the aperture boxes are merged by a welding union, and
\* after frame, connection, apertures and the optional axes have been added
\* the composite is merged by a non-welding union into exactly one solid;
\* without simplify nothing is merged and frame, connection and every
\* aperture box stay separate top-level solids.
C7_SimplifyMergesTwice ==
  Built =>
     IF self.simplify
     THEN /\ Len(mask_model) = 1
          /\ Len(boxes) > 1 =>
                /\ mask_model[1].kind = "union"
                /\ mask_model[1].glue
                /\ mask_model[1].parts = boxes
          /\ Len(model[1]) = 1
          /\ model[1][1].kind = "union"
          /\ ~model[1][1].glue
          /\ Len(model[1][1].parts) = 3 + AxisCount
          /\ model[1][1].parts[1] = frame_model[1]
          /\ model[1][1].parts[2] = connection_model[1]
          /\ model[1][1].parts[3] = mask_model[1]
     ELSE /\ mask_model = boxes
          /\ Len(model[1]) = 2 + Len(boxes) + AxisCount
          /\ model[1][1] = frame_model[1]
          /\ model[1][2] = connection_model[1]
          /\ \A k \in DOMAIN boxes : model[1][2 + k] = boxes[k]

\* a simplified model of several aperture boxes with debug axes
C7_Witness ==
  Built /\ self.simplify /\ Len(boxes) > 1 /\ self.show_axis

Not2DOrEmptyAxis ==
  Len(Shape) # 2 \/ \E k \in DOMAIN Shape : Shape[k] = 0

\* C8: a mask that is not 2-dimensional, or has an axis of extent zero, is
\* rejected at construction; no MaskModel with a composed model results.
C8_RejectsBadShape ==
  (pc # "new" /\ Not2DOrEmptyAxis) => (pc = "failed" /\ model = <<>>)

IsSaltire == pc # "new" /\ self.connections.cls = "SaltireConnection"

\* C9: SaltireConnection computes l = thickness/sqrt(2) from the thickness
\* alone and rejects a configuration in which l exceeds
\* min(width/2, height/2) instead of returning a solid.
C9_SaltireRejectsLargeChamfer ==
  IsSaltire =>
     /\ SaltireChamfer(self.connections)
          = Surd(Zero, self.connections.thickness)
     /\ SurdGtRat(SaltireChamfer(self.connections),
                  RMin(RMul(Width, Half), RMul(Height, Half)))
          => (connection_model = <<>> /\ pc = "failed")

StageOrder ==
  <<"frame", "connection", "apertures", "composition", "simplification">>

Composed ==
  \E k \in DOMAIN stages : stages[k] = "composition"

\* the failures that report an invalid state: a dedicated InvalidState
\* error, or the AssertionError of save's own state check
InvalidStateErrors == {"InvalidState", "AssertionError"}

C10_StageInvariant ==
  /\ Len(stages) <= Len(StageOrder)
  /\ \A k \in DOMAIN stages : stages[k] = StageOrder[k]
  /\ Built => (Composed /\ (Len(stages) = 5 <=> self.simplify))
  /\ (model # <<>>) <=> Composed
  /\ files # {} => Composed
  /\ \A f \in files : f.content = model
  /\ ~Composed => files = {}
  /\ save_error # "" => (~Composed /\ files = {})

\* C10: the stages run in the order frame, connection, apertures,
\* composition, optional simplification, all inside the constructor; a file
\* is exported only after composition completed; save on a model whose
\* composition has not completed fails with InvalidState and writes
\* nothing; and no stage is re-run after construction.
C10_PipelineOrder ==
  /\ []C10_StageInvariant
  /\ [][pc # "new" =>
          UNCHANGED <<stages, self, frame_model, connection_model,
                      mask_model, model>>]_vars
  /\ [][(model = <<>> /\ pc # "new") =>
          (files' = files /\ save_error' \in InvalidStateErrors)]_vars

\* a solid made by fusing two uncut parts
UnionOfTwoUncut(m) ==
  /\ m.kind = "union"
  /\ Len(m.parts) = 2
  /\ \A k \in DOMAIN m.parts : m.parts[k].kind \in {"box", "extrude"}

\* C11: in CrossConnection and SaltireConnection a bore radius of None
\* leaves the union of the two struts (or diagonal prisms) uncut, and a
\* given radius causes exactly one cut, of a full-depth cylinder of that
\* radius centred at the origin, applied to the union of the two parts and
\* never to a single part.
C11_BoreCutAfterUnion ==
  (pc # "new") =>
     LET c == connection_model[1]
         r == self.connections.mask_radius
     IN IF r = <<>>
        THEN UnionOfTwoUncut(c)
        ELSE /\ c.kind = "cut"
             /\ UnionOfTwoUncut(c.base)
             /\ c.tool.kind = "cylinder"
             /\ c.tool.r = r[1]
             /\ c.tool.cx = Zero /\ c.tool.cy = Zero
             /\ c.tool.z0 = Zero /\ c.tool.z1 = self.depth

\* a saltire with a bore radius has been generated and cut
C11_Witness ==
  /\ IsSaltire
  /\ self.connections.mask_radius = <<R(1, 4)>>
  /\ connection_model[1].kind = "cut"
  /\ self.depth = R(1, 2)

\* the box lies inside the frame cutout footprint and spans z in [0, depth]
InsideCutout(b) ==
  /\ RLe(RNeg(RMul(Width, Half)), b.x0) /\ RLe(b.x1, RMul(Width, Half))
  /\ RLe(RNeg(RMul(Height, Half)), b.y0) /\ RLe(b.y1, RMul(Height, Half))
  /\ FullDepth(b)

\* two boxes whose interiors do not meet: separated along x or along y
DisjointInteriors(a, b) ==
  \/ RLe(a.x1, b.x0) \/ RLe(b.x1, a.x0)
  \/ RLe(a.y1, b.y0) \/ RLe(b.y1, a.y0)

\* C12: for every 2D mask of shape (H, W) with H, W >= 1 and every positive
\* physical size, every emitted aperture box lies inside the frame cutout
\* footprint [-width/2, width/2] x [-height/2, height/2] with z in
\* [0, depth], and the boxes of two distinct transparent cells have
\* disjoint interiors.
C12_BoxesInsideCutout ==
  ValidMask =>
     /\ \A k \in DOMAIN boxes : InsideCutout(boxes[k])
     /\ \A j, k \in DOMAIN boxes :
           j # k => DisjointInteriors(boxes[j], boxes[k])
====
